---- MODULE Spec2Model ----
(***************************************************************************)
(* Model of discord/new_guild.py: the staging graph of a guild that is     *)
(* created in one request (NewGuild, NewRole, the NewGuildChannel family)  *)
(* and its serialization (_to_payload) and submission (_create_guild).     *)
(***************************************************************************)
EXTENDS Integers, Sequences, FiniteSets, TLC

VARIABLES
    guild,              \* NewGuild's constructor attributes (name, icon, ...)
    roles,              \* NewGuild.roles: List[NewRole]
    channels,           \* NewGuild.channels: List[NewGuildChannel]
    afk_channel_id,     \* NewGuild.afk_channel_id: Optional[int]
    system_channel_id,  \* NewGuild.system_channel_id: Optional[int]
    pc,                 \* where the caller is: "building", "awaiting", "returned"
    handed,             \* the documents handed to http.create_guild, in order
    result              \* what the last await produced: None, a Guild or an exception

graph == <<guild, roles, channels, afk_channel_id, system_channel_id>>
vars == <<guild, roles, channels, afk_channel_id, system_channel_id, pc, handed, result>>

(***************************************************************************)
(* Python values.  Every value carries its type, so that None, 8 and "8"   *)
(* are three different values.                                             *)
(***************************************************************************)
None == [type |-> "NoneType"]
PyInt(n) == [type |-> "int", value |-> n]
PyStr(s) == [type |-> "str", value |-> s]
PyBool(b) == [type |-> "bool", value |-> b]
PyBytes(s) == [type |-> "bytes", value |-> s]
\* A value object of the library with a numeric .value (Colour, Permissions,
\* an enum member): cls is its class.
Obj(cls, v) == [type |-> cls, value |-> v]
PermissionOverwrite(allow, deny) == [type |-> "PermissionOverwrite", allow |-> allow, deny |-> deny]
PartialEmoji(name, id) == [type |-> "PartialEmoji", name |-> name, id |-> id]
ForumTag(name) == [type |-> "ForumTag", name |-> name]

isinstance(x, cls) == x.type = cls

\* bool(x): None, 0, False and empty strings/bytes are falsy; objects without
\* __bool__/__len__ (Colour, enum members, NewCategory) are truthy.
Truthy(x) ==
    CASE x.type = "NoneType" -> FALSE
      [] x.type = "int" -> x.value # 0
      [] x.type = "bool" -> x.value
      [] x.type \in {"str", "bytes"} -> x.value # ""
      [] OTHER -> TRUE

\* Python's `a or b`.
py_or(a, b) == IF Truthy(a) THEN a ELSE b

Digit == <<"0", "1", "2", "3", "4", "5", "6", "7", "8", "9">>

\* str(n) for a non-negative int: its decimal digits.
RECURSIVE str(_)
str(n) == IF n < 10 THEN Digit[n + 1] ELSE str(n \div 10) \o Digit[(n % 10) + 1]

\* An exception raised instead of a returned document.
Raise(exc) == [raise |-> exc]
IsError(d) == DOMAIN d = {"raise"}

\* `if present: payload[k] = v`: the key a document gains, or nothing.
NoField == <<>>
Field(k, present, v) == IF present THEN k :> v ELSE NoField

\* A list of documents of which some turn raised an exception, and the first
\* exception raised.
HasError(docs) == \E i \in DOMAIN docs : IsError(docs[i])
FirstError(docs) ==
    docs[CHOOSE i \in DOMAIN docs : IsError(docs[i]) /\ \A j \in 1..(i - 1) : ~IsError(docs[j])]

(***************************************************************************)
(* Constants of the program and of the library it uses.                    *)
(***************************************************************************)
ChannelType == [text |-> 0, voice |-> 2, category |-> 4, stage_voice |-> 13, forum |-> 15]
Overwrites_ROLE == 0
Colour_default == Obj("Colour", 0)

\* utils._bytes_to_base64_data on the one image used here, b'GIF87a'.
bytes_to_base64_data(icon) ==
    IF icon.value = "GIF87a" THEN PyStr("data:image/gif;base64,R0lGODdh")
    ELSE Raise("ValueError")

\* PartialEmoji.from_str on a unicode emoji: the name, no id.
PartialEmoji_from_str(s) == PartialEmoji(s.value, None)
PartialEmoji_to_forum_tag_payload(e) ==
    IF e.id # None THEN [emoji_id |-> e.id, emoji_name |-> None]
    ELSE [emoji_id |-> None, emoji_name |-> PyStr(e.name)]
ForumTag_to_dict(t) == [name |-> PyStr(t.name)]

(***************************************************************************)
(* NewRole                                                                 *)
(***************************************************************************)
NewRole(id, name, permissions, colour, hoist, mentionable) ==
    [id |-> id, name |-> name, permissions |-> permissions, colour |-> colour,
     hoist |-> hoist, mentionable |-> mentionable]

NewRole_to_payload(self) ==
    LET actual_colour == py_or(self.colour, Colour_default)
    IN  [id |-> PyInt(self.id)]
        @@ Field("permissions", self.permissions # None, PyStr(str(self.permissions.value)))
        @@ Field("color", TRUE, IF isinstance(actual_colour, "int") THEN actual_colour
                                ELSE PyInt(actual_colour.value))
        @@ Field("hoist", self.hoist # None, self.hoist)
        @@ Field("mentionable", self.mentionable # None, self.mentionable)
        @@ Field("name", self.name # None, self.name)

(***************************************************************************)
(* NewGuildChannel and its subclasses.  A channel's category is None or a  *)
(* reference to a NewCategory of the graph, [type, idx]: the object at     *)
(* channels[idx].  An overwrites argument is None, a dict (its items in    *)
(* insertion order, each a key and a value) or something that is no        *)
(* Mapping.  A key is a role of this graph, [type |-> "NewRole", idx],     *)
(* or any other object, which has an id attribute or has none.             *)
(***************************************************************************)
CategoryRef(i) == [type |-> "NewCategory", idx |-> i]
RoleRef(i) == [type |-> "NewRole", idx |-> i]
PyDict(items) == [type |-> "dict", items |-> items]
PyList(items) == [type |-> "list", items |-> items]
Item(k, v) == [key |-> k, value |-> v]

\* hasattr(target, 'id') and target.id
HasId(target) == "idx" \in DOMAIN target \/ "id" \in DOMAIN target
TargetId(target) == IF "idx" \in DOMAIN target THEN roles[target.idx].id ELSE target.id

NewGuildChannel(id, name, type, category, overwrites) ==
    [id |-> id, name |-> name, type |-> type, category |-> category, overwrites |-> overwrites]

\* One turn of the loop over overwrites.items(): the entry, or the exception.
OverwritePayload(target, perm) ==
    IF ~isinstance(perm, "PermissionOverwrite") THEN Raise("TypeError")
    ELSE IF ~HasId(target) THEN Raise("AttributeError")
    ELSE IF ~isinstance(target, "NewRole") THEN Raise("TypeError")
    ELSE [allow |-> PyInt(perm.allow), deny |-> PyInt(perm.deny),
          id |-> PyInt(TargetId(target)), type |-> PyInt(Overwrites_ROLE)]

\* NewGuildChannel._to_payload with `if self.category.id:` for `if self.category:`.
NewGuildChannel_to_payload_falsy_parent(self) ==
    LET items == IF self.overwrites = None THEN <<>> ELSE self.overwrites.items
        perms == [i \in DOMAIN items |-> OverwritePayload(items[i].key, items[i].value)]
    IN  IF self.overwrites # None /\ ~isinstance(self.overwrites, "dict") THEN Raise("TypeError")
        ELSE IF HasError(perms) THEN FirstError(perms)
        ELSE [id |-> PyInt(self.id), name |-> PyStr(self.name), type |-> PyInt(self.type)]
             @@ Field("permission_overwrites", perms # <<>>, perms)
             @@ Field("parent_id", Truthy(self.category) /\ channels[self.category.idx].id # 0,
                      PyInt(channels[self.category.idx].id))

NewGuildChannel_to_payload(self) ==
    LET items == IF self.overwrites = None THEN <<>> ELSE self.overwrites.items
        perms == [i \in DOMAIN items |-> OverwritePayload(items[i].key, items[i].value)]
    IN  IF self.overwrites # None /\ ~isinstance(self.overwrites, "dict") THEN Raise("TypeError")
        ELSE IF HasError(perms) THEN FirstError(perms)
        ELSE [id |-> PyInt(self.id), name |-> PyStr(self.name), type |-> PyInt(self.type)]
             @@ Field("permission_overwrites", perms # <<>>, perms)
             @@ Field("parent_id", Truthy(self.category), PyInt(channels[self.category.idx].id))

NewTextChannel(id, name, category, overwrites, topic, slowmode_delay, nsfw, default_auto_archive_duration, default_thread_slowmode_delay) ==
    [cls |-> "NewTextChannel", topic |-> topic, slowmode_delay |-> slowmode_delay, nsfw |-> nsfw,
     default_auto_archive_duration |-> default_auto_archive_duration,
     default_thread_slowmode_delay |-> default_thread_slowmode_delay]
    @@ NewGuildChannel(id, name, ChannelType.text, category, overwrites)

\* TextFields with 'topic' set without `if self.topic is not None:`.
TextFields_null_topic(self) ==
    ("topic" :> self.topic)
    @@ Field("rate_limit_per_user", self.slowmode_delay # None, self.slowmode_delay)
    @@ Field("nsfw", self.nsfw # None, self.nsfw)
    @@ Field("default_auto_archive_duration", self.default_auto_archive_duration # None,
             self.default_auto_archive_duration)
    @@ Field("default_thread_rate_limit_per_user", self.default_thread_slowmode_delay # None,
             self.default_thread_slowmode_delay)

\* The five fields NewTextChannel and NewForum render alike.
TextFields(self) ==
    Field("topic", self.topic # None, self.topic)
    @@ Field("rate_limit_per_user", self.slowmode_delay # None, self.slowmode_delay)
    @@ Field("nsfw", self.nsfw # None, self.nsfw)
    @@ Field("default_auto_archive_duration", self.default_auto_archive_duration # None,
             self.default_auto_archive_duration)
    @@ Field("default_thread_rate_limit_per_user", self.default_thread_slowmode_delay # None,
             self.default_thread_slowmode_delay)

NewTextChannel_to_payload(self) ==
    LET payload == NewGuildChannel_to_payload(self)
    IN  IF IsError(payload) THEN payload ELSE payload @@ TextFields(self)

NewVoiceChannel(id, name, category, overwrites, bitrate, user_limit, rtc_region, video_quality_mode) ==
    [cls |-> "NewVoiceChannel", bitrate |-> bitrate, user_limit |-> user_limit,
     rtc_region |-> rtc_region, video_quality_mode |-> video_quality_mode]
    @@ NewGuildChannel(id, name, ChannelType.voice, category, overwrites)

NewStageChannel(id, name, category, overwrites, bitrate, user_limit, rtc_region, video_quality_mode) ==
    [cls |-> "NewStageChannel", bitrate |-> bitrate, user_limit |-> user_limit,
     rtc_region |-> rtc_region, video_quality_mode |-> video_quality_mode]
    @@ NewGuildChannel(id, name, ChannelType.stage_voice, category, overwrites)

\* `if self.<attr> is not None` and `not isinstance(self.<attr>, cls)`
WrongType(attr, cls) == attr # None /\ ~isinstance(attr, cls)

\* The four fields NewVoiceChannel and NewStageChannel render alike.
VoiceFields(self) ==
    Field("bitrate", self.bitrate # None, self.bitrate)
    @@ Field("user_limit", self.user_limit # None, self.user_limit)
    @@ Field("rtc_region", self.rtc_region # None, self.rtc_region)
    @@ Field("video_quality_mode", self.video_quality_mode # None, PyInt(self.video_quality_mode.value))

NewVoiceChannel_to_payload(self) ==
    LET payload == NewGuildChannel_to_payload(self)
    IN  IF IsError(payload) THEN payload
        ELSE IF WrongType(self.video_quality_mode, "VideoQualityMode") THEN Raise("TypeError")
        ELSE payload @@ VoiceFields(self)

NewStageChannel_to_payload(self) ==
    LET payload == NewGuildChannel_to_payload(self)
    IN  IF IsError(payload) THEN payload
        ELSE IF WrongType(self.video_quality_mode, "VideoQualityMode") THEN Raise("TypeError")
        ELSE payload @@ VoiceFields(self)

NewCategory(id, name, overwrites) ==
    [cls |-> "NewCategory"] @@ NewGuildChannel(id, name, ChannelType.category, None, overwrites)

NewForum(id, name, category, overwrites, topic, slowmode_delay, nsfw, default_auto_archive_duration, default_thread_slowmode_delay, default_sort_order, default_reaction_emoji, default_layout, available_tags) ==
    [cls |-> "NewForum", topic |-> topic, slowmode_delay |-> slowmode_delay, nsfw |-> nsfw,
     default_auto_archive_duration |-> default_auto_archive_duration,
     default_thread_slowmode_delay |-> default_thread_slowmode_delay,
     default_sort_order |-> default_sort_order, default_reaction_emoji |-> default_reaction_emoji,
     default_layout |-> default_layout, available_tags |-> available_tags]
    @@ NewGuildChannel(id, name, ChannelType.text, category, overwrites)

\* default_reaction_emoji as rendered: an emoji object, or a str through from_str.
ReactionEmoji(emoji) ==
    PartialEmoji_to_forum_tag_payload(
        IF isinstance(emoji, "PartialEmoji") THEN emoji ELSE PartialEmoji_from_str(emoji))

NewForum_to_payload(self) ==
    LET payload == NewGuildChannel_to_payload(self)
    IN  IF IsError(payload) THEN payload
        ELSE IF WrongType(self.default_sort_order, "ForumOrderType") THEN Raise("TypeError")
        ELSE IF /\ self.default_reaction_emoji # None
                /\ ~isinstance(self.default_reaction_emoji, "PartialEmoji")
                /\ ~isinstance(self.default_reaction_emoji, "str") THEN Raise("ValueError")
        ELSE IF WrongType(self.default_layout, "ForumLayoutType") THEN Raise("TypeError")
        ELSE payload @@ TextFields(self)
             @@ Field("default_sort_order", self.default_sort_order # None,
                      PyInt(self.default_sort_order.value))
             @@ Field("default_reaction_emoji", self.default_reaction_emoji # None,
                      ReactionEmoji(self.default_reaction_emoji))
             @@ Field("default_forum_layout", self.default_layout # None,
                      PyInt(self.default_layout.value))
             @@ Field("available_tags", self.available_tags # None,
                      [i \in DOMAIN self.available_tags.items |->
                          ForumTag_to_dict(self.available_tags.items[i])])

\* channel._to_payload(): the method of the channel's class.
Channel_to_payload(self) ==
    CASE self.cls = "NewTextChannel" -> NewTextChannel_to_payload(self)
      [] self.cls = "NewVoiceChannel" -> NewVoiceChannel_to_payload(self)
      [] self.cls = "NewStageChannel" -> NewStageChannel_to_payload(self)
      [] self.cls = "NewCategory" -> NewGuildChannel_to_payload(self)
      [] self.cls = "NewForum" -> NewForum_to_payload(self)

(***************************************************************************)
(* NewGuild                                                                *)
(***************************************************************************)
NewGuild(name, icon, afk_timeout, verification_level, notification_level, content_filter, system_channel_flags) ==
    [name |-> name, icon |-> icon, afk_timeout |-> afk_timeout,
     verification_level |-> verification_level, notification_level |-> notification_level,
     content_filter |-> content_filter, system_channel_flags |-> system_channel_flags]

\* randint(0, 999_999_999_999): any integer of the range, each draw
\* independent of the others.  The model draws from its low end: 0, the one
\* id that is falsy, and 1, which stands for every other id; two draws may
\* give the same number.
randint == {0, 1}

EVERYONE == PyStr("@everyone")

\* The roles list after the default_role property has run.
default_role_roles(id) ==
    IF roles = <<>> THEN <<NewRole(id, EVERYONE, None, None, None, None)>> ELSE roles

\* Reading guild.default_role.
default_role ==
    /\ \E id \in randint : roles' = default_role_roles(id)
    /\ UNCHANGED <<guild, channels, afk_channel_id, system_channel_id, pc, handed, result>>

\* add_role without `self.default_role  # Populate @everyone role first.`
add_role_unpopulated(name, permissions, color, colour, hoist, mentionable) ==
    /\ \E id \in randint :
        roles' = Append(roles, NewRole(id, name, permissions, py_or(color, colour), hoist, mentionable))
    /\ UNCHANGED <<guild, channels, afk_channel_id, system_channel_id, pc, handed, result>>

add_role(name, permissions, color, colour, hoist, mentionable) ==
    /\ \E id0, id \in randint :
        LET populated == IF roles = <<>> /\ name # EVERYONE THEN default_role_roles(id0) ELSE roles
            role == NewRole(id, name, permissions, py_or(color, colour), hoist, mentionable)
        IN  roles' = Append(populated, role)
    /\ UNCHANGED <<guild, channels, afk_channel_id, system_channel_id, pc, handed, result>>

add_text_channel(name, category, topic, slowmode_delay, nsfw, overwrites, default_auto_archive_duration, default_thread_slowmode_delay, is_system_channel) ==
    /\ \E id \in randint :
        LET channel == NewTextChannel(id, name, category, overwrites, topic, slowmode_delay, nsfw,
                                      default_auto_archive_duration, default_thread_slowmode_delay)
        IN  /\ channels' = Append(channels, channel)
            /\ system_channel_id' = IF is_system_channel THEN PyInt(channel.id) ELSE system_channel_id
    /\ UNCHANGED <<guild, roles, afk_channel_id, pc, handed, result>>

add_voice_channel(name, category, bitrate, user_limit, rtc_region, video_quality_mode, overwrites, is_afk_channel) ==
    /\ \E id \in randint :
        LET channel == NewVoiceChannel(id, name, category, overwrites, bitrate, user_limit,
                                       rtc_region, video_quality_mode)
        IN  /\ channels' = Append(channels, channel)
            /\ afk_channel_id' = IF is_afk_channel THEN PyInt(channel.id) ELSE afk_channel_id
    /\ UNCHANGED <<guild, roles, system_channel_id, pc, handed, result>>

add_stage_channel(name, category, bitrate, user_limit, rtc_region, video_quality_mode, overwrites) ==
    /\ \E id \in randint :
        channels' = Append(channels, NewStageChannel(id, name, category, overwrites, bitrate,
                                                     user_limit, rtc_region, video_quality_mode))
    /\ UNCHANGED <<guild, roles, afk_channel_id, system_channel_id, pc, handed, result>>

add_category(name, overwrites) ==
    /\ \E id \in randint : channels' = Append(channels, NewCategory(id, name, overwrites))
    /\ UNCHANGED <<guild, roles, afk_channel_id, system_channel_id, pc, handed, result>>

add_forum(name, topic, category, slowmode_delay, nsfw, overwrites, default_auto_archive_duration, default_thread_slowmode_delay, default_sort_order, default_reaction_emoji, default_layout, available_tags) ==
    /\ \E id \in randint :
        channels' = Append(channels,
            NewForum(id, name, category, overwrites, topic, slowmode_delay, nsfw,
                     default_auto_archive_duration, default_thread_slowmode_delay,
                     default_sort_order, default_reaction_emoji, default_layout, available_tags))
    /\ UNCHANGED <<guild, roles, afk_channel_id, system_channel_id, pc, handed, result>>

\* The convenience operations of a category: the guild's, with category=self.
NewCategory_add_text_channel(self, name, topic, slowmode_delay, nsfw, overwrites, default_auto_archive_duration, default_thread_slowmode_delay, is_system_channel) ==
    add_text_channel(name, self, topic, slowmode_delay, nsfw, overwrites,
                     default_auto_archive_duration, default_thread_slowmode_delay, is_system_channel)

NewCategory_add_voice_channel(self, name, bitrate, user_limit, rtc_region, video_quality_mode, overwrites, is_afk_channel) ==
    add_voice_channel(name, self, bitrate, user_limit, rtc_region, video_quality_mode,
                      overwrites, is_afk_channel)

NewCategory_add_stage_channel(self, name, bitrate, user_limit, rtc_region, video_quality_mode, overwrites) ==
    add_stage_channel(name, self, bitrate, user_limit, rtc_region, video_quality_mode, overwrites)

NewCategory_add_forum(self, name, topic, slowmode_delay, nsfw, overwrites, default_auto_archive_duration, default_thread_slowmode_delay, default_sort_order, default_reaction_emoji, default_layout, available_tags) ==
    add_forum(name, topic, self, slowmode_delay, nsfw, overwrites, default_auto_archive_duration,
              default_thread_slowmode_delay, default_sort_order, default_reaction_emoji,
              default_layout, available_tags)

\* payload['roles'] set without `if self.roles:`.
RolesField_unguarded == "roles" :> [i \in DOMAIN roles |-> NewRole_to_payload(roles[i])]

\* `if self.roles: payload['roles'] = [...]`
RolesField == Field("roles", roles # <<>>, [i \in DOMAIN roles |-> NewRole_to_payload(roles[i])])

NewGuild_to_payload ==
    LET icon == IF Truthy(guild.icon) THEN bytes_to_base64_data(guild.icon) ELSE None
        docs == [i \in DOMAIN channels |-> Channel_to_payload(channels[i])]
    IN  IF IsError(icon) THEN icon
        ELSE IF HasError(docs) THEN FirstError(docs)
        ELSE [name |-> PyStr(guild.name)]
             @@ Field("icon", Truthy(guild.icon), icon)
             @@ Field("afk_timeout", guild.afk_timeout # None, guild.afk_timeout)
             @@ Field("verification_level", Truthy(guild.verification_level),
                      PyInt(guild.verification_level.value))
             @@ Field("default_message_notifications", Truthy(guild.notification_level),
                      PyInt(guild.notification_level.value))
             @@ Field("explicit_content_filter", Truthy(guild.content_filter),
                      PyInt(guild.content_filter.value))
             @@ Field("system_channel_flags", Truthy(guild.system_channel_flags),
                      PyInt(guild.system_channel_flags.value))
             @@ RolesField
             @@ Field("channels", channels # <<>>, docs)
             @@ Field("afk_channel_id", channels # <<>> /\ Truthy(afk_channel_id), afk_channel_id)
             @@ Field("system_channel_id", channels # <<>> /\ Truthy(system_channel_id),
                      system_channel_id)

(***************************************************************************)
(* Submission: `await guild` runs _create_guild, which serializes, hands   *)
(* the document to http.create_guild and is suspended until it answers.    *)
(***************************************************************************)
\* _create_guild serializing through default_role, which populates roles.
create_guild_populating ==
    /\ pc = "idle"
    /\ \E id \in randint : roles' = default_role_roles(id)
    /\ LET payload == NewGuild_to_payload
       IN  IF IsError(payload)
           THEN /\ result' = payload
                /\ UNCHANGED <<pc, handed>>
           ELSE /\ handed' = Append(handed, payload)
                /\ pc' = "awaiting"
                /\ result' = None
    /\ UNCHANGED <<guild, channels, afk_channel_id, system_channel_id>>

create_guild ==
    /\ pc = "idle"
    /\ LET payload == NewGuild_to_payload
       IN  IF IsError(payload)
           THEN /\ result' = payload
                /\ UNCHANGED <<pc, handed>>
           ELSE /\ handed' = Append(handed, payload)
                /\ pc' = "awaiting"
                /\ result' = None
    /\ UNCHANGED graph

\* http.create_guild answers with the guild's data, or fails.
create_guild_resume ==
    /\ pc = "awaiting"
    /\ pc' = "idle"
    /\ \E ok \in BOOLEAN : result' = IF ok THEN [type |-> "Guild"] ELSE Raise("HTTPException")
    /\ UNCHANGED <<graph, handed>>

(***************************************************************************)
(* The graphs a caller builds.  Spec grows a graph of roles, categories    *)
(* and channels, with every optional attribute left unset.                 *)
(***************************************************************************)
MaxRoles == 2
MaxChannels == 2

RoleNames == {EVERYONE, PyStr("Mods")}

\* The categories of the graph, as `category` arguments.
Categories == {CategoryRef(i) : i \in {j \in DOMAIN channels : channels[j].cls = "NewCategory"}}
CategoryArgs == {None} \cup Categories

InitGraph ==
    /\ roles = <<>>
    /\ channels = <<>>
    /\ afk_channel_id = None
    /\ system_channel_id = None
    /\ pc = "idle"
    /\ handed = <<>>
    /\ result = None

Init ==
    /\ guild = NewGuild("Test", None, None, None, None, None, None)
    /\ InitGraph

Next ==
    \/ /\ Len(roles) < MaxRoles
       /\ \E name \in RoleNames : add_role(name, None, None, None, None, None)
    \/ default_role
    \/ /\ Len(channels) < MaxChannels
       /\ \E category \in CategoryArgs, is_system_channel \in BOOLEAN :
            add_text_channel("chat", category, None, None, None, None, None, None, is_system_channel)
    \/ /\ Len(channels) < MaxChannels
       /\ \E category \in CategoryArgs, is_afk_channel \in BOOLEAN :
            add_voice_channel("voice", category, None, None, None, None, None, is_afk_channel)
    \/ /\ Len(channels) < MaxChannels
       /\ \E category \in CategoryArgs :
            add_stage_channel("stage", category, None, None, None, None, None)
    \/ /\ Len(channels) < MaxChannels
       /\ add_category("General", None)
    \/ /\ Len(channels) < MaxChannels
       /\ \E category \in CategoryArgs :
            add_forum("forum", None, category, None, None, None, None, None, None, None, None, None)
    \/ /\ Len(channels) < MaxChannels
       /\ \E self \in Categories, is_system_channel \in BOOLEAN :
            NewCategory_add_text_channel(self, "chat", None, None, None, None, None, None, is_system_channel)
    \/ /\ Len(channels) < MaxChannels
       /\ \E self \in Categories, is_afk_channel \in BOOLEAN :
            NewCategory_add_voice_channel(self, "voice", None, None, None, None, None, is_afk_channel)
    \/ /\ Len(channels) < MaxChannels
       /\ \E self \in Categories :
            NewCategory_add_stage_channel(self, "stage", None, None, None, None, None)
    \/ /\ Len(channels) < MaxChannels
       /\ \E self \in Categories :
            NewCategory_add_forum(self, "forum", None, None, None, None, None, None, None, None, None, None)

Spec == Init /\ [][Next]_vars

(***************************************************************************)
(* SpecOverwrites: graphs of one channel that carries an overwrites         *)
(* argument, built and then submitted.                                      *)
(***************************************************************************)
MaxSubmits == 2

\* Keys of an overwrites dict: a role of this graph, a role another graph's
\* add_role made, a channel, and an object with no id (a str).
OwnRoles == {RoleRef(i) : i \in DOMAIN roles}
OverwriteKeys ==
    OwnRoles \cup {[type |-> "NewRole", id |-> id] : id \in randint}
             \cup {[type |-> "NewTextChannel", id |-> id] : id \in randint}
             \cup {PyStr("Mods")}
PermissionOverwrites == {PermissionOverwrite(8, 0), PermissionOverwrite(1024, 8)}
OverwriteValues == PermissionOverwrites \cup {PyInt(8)}
OverwritesArgs ==
    {None, PyList(<<>>), PyDict(<<>>)}
    \cup {PyDict(<<Item(k, v)>>) : k \in OverwriteKeys, v \in OverwriteValues}
    \cup {PyDict(<<Item(k[1], v), Item(k[2], w)>>) :
            k \in {x \in OwnRoles \X OwnRoles : x[1] # x[2]},
            v \in PermissionOverwrites, w \in PermissionOverwrites}

\* The caller builds the graph first and submits it afterwards.
Building == pc = "idle" /\ handed = <<>> /\ result = None

NextOverwrites ==
    \/ /\ Building /\ roles = <<>>
       /\ \E name \in RoleNames : add_role(name, None, None, None, None, None)
    \/ /\ Building /\ channels = <<>>
       /\ \E overwrites \in OverwritesArgs, is_system_channel \in BOOLEAN :
            add_text_channel("chat", None, None, None, None, overwrites, None, None, is_system_channel)
    \/ /\ Building /\ channels = <<>>
       /\ \E overwrites \in OverwritesArgs, is_afk_channel \in BOOLEAN :
            add_voice_channel("voice", None, None, None, None, None, overwrites, is_afk_channel)
    \/ /\ Building /\ channels = <<>>
       /\ \E overwrites \in OverwritesArgs :
            add_stage_channel("stage", None, None, None, None, None, overwrites)
    \/ /\ Building /\ channels = <<>>
       /\ \E overwrites \in OverwritesArgs : add_category("General", overwrites)
    \/ /\ Building /\ channels = <<>>
       /\ \E overwrites \in OverwritesArgs :
            add_forum("forum", None, None, None, None, overwrites, None, None, None, None, None, None)
    \/ /\ Len(handed) < MaxSubmits
       /\ create_guild
    \/ create_guild_resume

SpecOverwrites == Init /\ [][NextOverwrites]_vars

(***************************************************************************)
(* SpecFields: graphs of one guild and one role or channel, over the       *)
(* optional attributes each can be given.                                  *)
(***************************************************************************)
Levels(cls) == {None, Obj(cls, 1)}
IconArgs == {None, PyBytes(""), PyBytes("GIF87a")}
AfkTimeoutArgs == {None, PyInt(0), PyInt(300)}

PermissionsArgs == {None, Obj("Permissions", 8)}
ColorArgs == {None, PyInt(0), PyInt(5)}
ColourArgs == {None, PyInt(7), Obj("Colour", 9)}
HoistArgs == {None, PyBool(TRUE)}
MentionableArgs == {None, PyBool(FALSE)}

TopicArgs == {None, PyStr("rules")}
SlowmodeArgs == {None, PyInt(5)}
NsfwArgs == {None, PyBool(FALSE)}
ArchiveArgs == {None, PyInt(60)}
BitrateArgs == {None, PyInt(64000)}
UserLimitArgs == {None, PyInt(0)}
RegionArgs == {None, PyStr("rotterdam")}
VideoQualityArgs == {None, Obj("VideoQualityMode", 1), PyInt(1)}
SortOrderArgs == {None, Obj("ForumOrderType", 0), PyInt(0)}
EmojiArgs == {None, PartialEmoji("blob", PyInt(7)), PyStr("+1"), PyInt(1)}
LayoutArgs == {None, Obj("ForumLayoutType", 1), PyStr("list")}
TagsArgs == {None, PyList(<<ForumTag("help"), ForumTag("bug")>>)}

InitFields ==
    /\ \E icon \in IconArgs, afk_timeout \in AfkTimeoutArgs,
          verification_level \in Levels("VerificationLevel"),
          notification_level \in Levels("NotificationLevel"),
          content_filter \in Levels("ContentFilter"),
          system_channel_flags \in Levels("SystemChannelFlags") :
            guild = NewGuild("Test", icon, afk_timeout, verification_level, notification_level,
                             content_filter, system_channel_flags)
    /\ InitGraph

Empty == roles = <<>> /\ channels = <<>>

NextFields ==
    \/ /\ Empty
       /\ \E name \in RoleNames, permissions \in PermissionsArgs, color \in ColorArgs,
             colour \in ColourArgs, hoist \in HoistArgs, mentionable \in MentionableArgs :
            add_role(name, permissions, color, colour, hoist, mentionable)
    \/ /\ Empty
       /\ \E topic \in TopicArgs, slowmode_delay \in SlowmodeArgs, nsfw \in NsfwArgs,
             default_auto_archive_duration \in ArchiveArgs,
             default_thread_slowmode_delay \in SlowmodeArgs :
            add_text_channel("chat", None, topic, slowmode_delay, nsfw, None,
                             default_auto_archive_duration, default_thread_slowmode_delay, FALSE)
    \/ /\ Empty
       /\ \E bitrate \in BitrateArgs, user_limit \in UserLimitArgs, rtc_region \in RegionArgs,
             video_quality_mode \in VideoQualityArgs :
            add_voice_channel("voice", None, bitrate, user_limit, rtc_region, video_quality_mode,
                              None, FALSE)
    \/ /\ Empty
       /\ \E bitrate \in BitrateArgs, user_limit \in UserLimitArgs, rtc_region \in RegionArgs,
             video_quality_mode \in VideoQualityArgs :
            add_stage_channel("stage", None, bitrate, user_limit, rtc_region, video_quality_mode, None)
    \/ /\ Empty
       /\ add_category("General", None)
    \/ /\ Empty
       /\ \E set \in BOOLEAN, default_sort_order \in SortOrderArgs,
             default_reaction_emoji \in EmojiArgs, default_layout \in LayoutArgs,
             available_tags \in TagsArgs :
            LET text == IF set THEN <<PyStr("rules"), PyInt(5), PyBool(FALSE), PyInt(60), PyInt(5)>>
                        ELSE <<None, None, None, None, None>>
            IN  add_forum("forum", text[1], None, text[2], text[3], None, text[4], text[5],
                          default_sort_order, default_reaction_emoji, default_layout, available_tags)

SpecFields == InitFields /\ [][NextFields]_vars

(***************************************************************************)
(* Properties.                                                             *)
(***************************************************************************)
\* The document serialization returns in the current state, or the exception.
Document == NewGuild_to_payload

\* The first role is the default role, and the document lists the roles in
\* the order of the roles list.
C1_RolesInOrder ==
    roles # <<>> =>
        /\ roles[1].name = EVERYONE
        /\ ~IsError(Document) =>
            /\ Len(Document.roles) = Len(roles)
            /\ \A i \in DOMAIN roles :
                /\ Document.roles[i].id = PyInt(roles[i].id)
                /\ Document.roles[i].name = roles[i].name
\* What a step of add_role does to the roles list.
C1_AddRoleStep ==
    \A name \in RoleNames :
        add_role(name, None, None, None, None, None) =>
            IF roles = <<>> /\ name # EVERYONE
            THEN /\ Len(roles') = 2
                 /\ roles'[1].name = EVERYONE
                 /\ roles'[2].name = name
            ELSE /\ Len(roles') = Len(roles) + 1
                 /\ SubSeq(roles', 1, Len(roles)) = roles
                 /\ roles'[Len(roles')].name = name
\* C1: whenever roles is non-empty its first element is named '@everyone';
\* add_role with another name on an empty roles list leaves exactly
\* [default role, named role]; every later add_role appends at the end; and
\* the document's 'roles' lists the roles in that order.
C1_DefaultRoleFirst == []C1_RolesInOrder /\ [][C1_AddRoleStep]_vars
C1_Witness == Len(roles) = 2 /\ roles[1].name = EVERYONE /\ roles[2].name = PyStr("Mods")

\* C2 (as amended): a graph on which no role was ever added serializes to a
\* document with no 'roles' key, however many channels it has.
C2_NoRolesNoKey == (roles = <<>> /\ ~IsError(Document)) => "roles" \notin DOMAIN Document
C2_Witness == roles = <<>> /\ Len(channels) = 2 /\ "channels" \in DOMAIN Document
\* C2 as stated: such a graph serializes 'roles' as the default role alone.
C2_Original ==
    roles = <<>> =>
        /\ "roles" \in DOMAIN Document
        /\ Len(Document.roles) = 1
        /\ Document.roles[1].name = EVERYONE

\* C3: a channel added with a category renders 'parent_id' equal to the 'id'
\* of that category's own document in the same output; a channel added
\* without one, and every category, renders no 'parent_id'.
C3_ParentIsCategory ==
    ~IsError(Document) =>
        \A i \in DOMAIN channels :
            LET channel == channels[i]
                doc == Document.channels[i]
            IN  /\ channel.cls = "NewCategory" => channel.category = None
                /\ IF channel.category = None
                   THEN "parent_id" \notin DOMAIN doc
                   ELSE /\ "parent_id" \in DOMAIN doc
                        /\ Document.channels[channel.category.idx].type = PyInt(ChannelType.category)
                        /\ doc.parent_id = Document.channels[channel.category.idx].id
C3_Witness ==
    /\ Len(channels) = 2
    /\ channels[2].category = CategoryRef(1)
    /\ channels[1].id = 0
    /\ channels[2].id # 0
    /\ ~IsError(Document)

\* The overwrites dicts of the graph's channels: is every key of every one a
\* role of this graph's roles list?
IsDict(o) == o # None /\ isinstance(o, "dict")
OwnKeys(o) == \A j \in DOMAIN o.items : o.items[j].key \in OwnRoles

\* C4 as stated: a channel whose overwrites map roles of the graph to
\* PermissionOverwrite(X, Y) renders one 'permission_overwrites' entry per
\* role, in insertion order, with the role's id, the ROLE type and allow/deny
\* as the strings str(X) and str(Y).
C4_Original ==
    ~IsError(Document) =>
        \A i \in DOMAIN channels :
            LET o == channels[i].overwrites
                doc == Document.channels[i]
            IN  (IsDict(o) /\ o.items # <<>> /\ OwnKeys(o)) =>
                    /\ "permission_overwrites" \in DOMAIN doc
                    /\ Len(doc.permission_overwrites) = Len(o.items)
                    /\ \A j \in DOMAIN o.items :
                        LET entry == doc.permission_overwrites[j]
                        IN  /\ entry.id = PyInt(roles[o.items[j].key.idx].id)
                            /\ entry.type = PyInt(Overwrites_ROLE)
                            /\ entry.allow = PyStr(str(o.items[j].value.allow))
                            /\ entry.deny = PyStr(str(o.items[j].value.deny))

\* C5 as stated: serialization returns a document only if every key of
\* every overwrites dict is a role of this graph's roles list, so that every
\* overwrite 'id' of a document is the 'id' of one of its 'roles'.
C5_Original ==
    ~IsError(Document) =>
        \A i \in DOMAIN channels :
            /\ IsDict(channels[i].overwrites) => OwnKeys(channels[i].overwrites)
            /\ "permission_overwrites" \in DOMAIN Document.channels[i] =>
                \A j \in DOMAIN Document.channels[i].permission_overwrites :
                    /\ "roles" \in DOMAIN Document
                    /\ \E r \in DOMAIN Document.roles :
                        Document.roles[r].id = Document.channels[i].permission_overwrites[j].id

\* C6 as stated: the document has 'afk_channel_id' exactly when a voice
\* channel was added with is_afk_channel (so channels is non-empty), and it
\* is then the 'id' of that channel's document; likewise 'system_channel_id'
\* and add_text_channel's is_system_channel.
C6_Original ==
    ~IsError(Document) =>
        /\ "afk_channel_id" \in DOMAIN Document <=> (channels # <<>> /\ afk_channel_id # None)
        /\ "afk_channel_id" \in DOMAIN Document =>
            /\ Document.afk_channel_id = afk_channel_id
            /\ \E i \in DOMAIN channels :
                /\ channels[i].cls = "NewVoiceChannel"
                /\ Document.channels[i].id = Document.afk_channel_id
        /\ "system_channel_id" \in DOMAIN Document <=> (channels # <<>> /\ system_channel_id # None)
        /\ "system_channel_id" \in DOMAIN Document =>
            /\ Document.system_channel_id = system_channel_id
            /\ \E i \in DOMAIN channels :
                /\ channels[i].cls = "NewTextChannel"
                /\ Document.channels[i].id = Document.system_channel_id

\* Optional attributes and the keys they render as.
GuildKeys == {<<"icon", "icon">>, <<"afk_timeout", "afk_timeout">>,
              <<"verification_level", "verification_level">>,
              <<"notification_level", "default_message_notifications">>,
              <<"content_filter", "explicit_content_filter">>,
              <<"system_channel_flags", "system_channel_flags">>}
RoleKeys == {<<"permissions", "permissions">>, <<"hoist", "hoist">>, <<"mentionable", "mentionable">>}
BaseKeys == {<<"category", "parent_id">>, <<"overwrites", "permission_overwrites">>}
TextKeys == {<<"topic", "topic">>, <<"slowmode_delay", "rate_limit_per_user">>, <<"nsfw", "nsfw">>,
             <<"default_auto_archive_duration", "default_auto_archive_duration">>,
             <<"default_thread_slowmode_delay", "default_thread_rate_limit_per_user">>}
VoiceKeys == {<<"bitrate", "bitrate">>, <<"user_limit", "user_limit">>, <<"rtc_region", "rtc_region">>,
              <<"video_quality_mode", "video_quality_mode">>}
ForumKeys == {<<"default_sort_order", "default_sort_order">>,
              <<"default_reaction_emoji", "default_reaction_emoji">>,
              <<"default_layout", "default_forum_layout">>, <<"available_tags", "available_tags">>}
ChannelKeys(cls) ==
    BaseKeys \cup
    CASE cls = "NewTextChannel" -> TextKeys
      [] cls \in {"NewVoiceChannel", "NewStageChannel"} -> VoiceKeys
      [] cls = "NewForum" -> TextKeys \cup ForumKeys
      [] OTHER -> {}

\* Every attribute of the entity left unset has no key in its document.
UnsetOmitted(entity, doc, keys) == \A k \in keys : entity[k[1]] = None => k[2] \notin DOMAIN doc
GuildAndChannelsOmitUnset ==
    /\ UnsetOmitted(guild, Document, GuildKeys)
    /\ \A i \in DOMAIN channels :
        UnsetOmitted(channels[i], Document.channels[i], ChannelKeys(channels[i].cls))

\* C7 (as amended): an optional attribute left unset at construction has no
\* key in the entity's document, except a role's colour: a role without a
\* colour renders 'color' as 0.
C7_UnsetOmitted ==
    ~IsError(Document) =>
        /\ GuildAndChannelsOmitUnset
        /\ \A i \in DOMAIN roles :
            /\ UnsetOmitted(roles[i], Document.roles[i], RoleKeys)
            /\ roles[i].colour = None =>
                ("color" \in DOMAIN Document.roles[i] /\ Document.roles[i].color = PyInt(0))
C7_Witness ==
    /\ ~IsError(Document)
    /\ guild.afk_timeout = None
    /\ Len(roles) = 2
    /\ roles[2].colour = None
    /\ roles[2].permissions = None
    /\ roles[2].hoist # None
\* C7 as stated: no optional attribute left unset has a key, a role's colour
\* included.
C7_Original ==
    ~IsError(Document) =>
        /\ GuildAndChannelsOmitUnset
        /\ \A i \in DOMAIN roles :
            UnsetOmitted(roles[i], Document.roles[i], RoleKeys \cup {<<"colour", "color">>})

\* C8 as stated: any two distinct entities of a graph, roles and channels
\* alike, have different ids, none of them negative.
EntityIds == [i \in DOMAIN roles |-> roles[i].id] \o [i \in DOMAIN channels |-> channels[i].id]
C8_Original ==
    \A i, j \in DOMAIN EntityIds :
        /\ EntityIds[i] >= 0
        /\ i # j => EntityIds[i] # EntityIds[j]

\* What a step that submits, or that resumes a submission, may change.
C9_SubmitStep ==
    /\ (pc' # pc \/ handed' # handed \/ result' # result) => graph' = graph
    /\ handed' # handed =>
        /\ ~IsError(Document)
        /\ handed' = Append(handed, Document)
        /\ pc = "idle" /\ pc' = "awaiting"
        /\ handed # <<>> => handed'[Len(handed')] = handed[Len(handed)]
    /\ (pc = "idle" /\ IsError(Document)) => (handed' = handed /\ pc' = "idle")
    /\ (pc = "idle" /\ result' # result /\ pc' = "idle") => result' = Document
    /\ (result' # result /\ result' = [type |-> "Guild"]) => (pc = "awaiting" /\ handed # <<>>)
    /\ pc = "awaiting" => handed' = handed
\* C9: a submission step never changes the graph; it hands the serialized
\* document to the transport once, and only when serialization succeeded; a
\* failed serialization is what the await raises; a Guild comes only out of
\* the transport's answer; and submitting the same graph again hands over a
\* document identical to the one before.
C9_SubmissionFrame == [][C9_SubmitStep]_vars
C9_Witness ==
    /\ Len(handed) = 2
    /\ result = Raise("HTTPException")
    /\ Len(roles) = 2
    /\ channels # <<>>
    /\ afk_channel_id # None

\* What a step of add_role makes of its color and colour arguments.
C10_AddRoleStep ==
    \A name \in RoleNames, permissions \in PermissionsArgs, color \in ColorArgs,
       colour \in ColourArgs, hoist \in HoistArgs, mentionable \in MentionableArgs :
        add_role(name, permissions, color, colour, hoist, mentionable) =>
            LET role == roles'[Len(roles')]
            IN  /\ (color # None /\ colour # None) =>
                    (role.colour = colour /\ NewRole_to_payload(role).color = PyInt(colour.value))
                /\ (color # None /\ colour = None) =>
                    NewRole_to_payload(role).color = PyInt(color.value)
                /\ (color = None /\ colour # None) =>
                    NewRole_to_payload(role).color = PyInt(colour.value)
\* C10 as stated: add_role given both color and colour makes the role's
\* colour, and its document's 'color', the colour argument's; given one of
\* the two, the document's 'color' is that one's.
C10_Original == [][C10_AddRoleStep]_vars

\* The kind of channel each builder operation creates, by the class of the
\* channel it appends, and the type code of that kind.
KindOf(cls) ==
    CASE cls = "NewTextChannel" -> "text"
      [] cls = "NewVoiceChannel" -> "voice"
      [] cls = "NewStageChannel" -> "stage_voice"
      [] cls = "NewCategory" -> "category"
      [] cls = "NewForum" -> "forum"
Kinds == {"text", "voice", "stage_voice", "category", "forum"}

\* C11 as stated: every channel document renders the 'type' of the kind its
\* builder operation creates, the five kinds have pairwise distinct codes,
\* and so a channel add_forum made never renders the type of one
\* add_text_channel made.
C11_Original ==
    /\ \A k1, k2 \in Kinds : k1 # k2 => ChannelType[k1] # ChannelType[k2]
    /\ ~IsError(Document) =>
        \A i, j \in DOMAIN channels :
            /\ Document.channels[i].type = PyInt(ChannelType[KindOf(channels[i].cls)])
            /\ (channels[i].cls = "NewForum" /\ channels[j].cls = "NewTextChannel") =>
                    Document.channels[i].type # Document.channels[j].type

====
